---------------------------- MODULE Spec2Model ----------------------------
(***************************************************************************)
(* A model of the property voice agent: the knowledge-base handler         *)
(* (voice_assistant/property_kb_handler.py), the response generator        *)
(* (voice_assistant/optimized_response.py) and the request handlers that   *)
(* share the global chat history (voice_assistant_api.py).                 *)
(*                                                                         *)
(* Python strings are TLA+ strings, read as sequences of characters with   *)
(* Len, SubSeq and \o.                                                     *)
(***************************************************************************)
EXTENDS Integers, Sequences, FiniteSets, TLC

(***************************************************************************)
(* Python string primitives                                                *)
(***************************************************************************)

UpperLetters == "ABCDEFGHIJKLMNOPQRSTUVWXYZ"
LowerLetters == "abcdefghijklmnopqrstuvwxyz"
DigitChars == {"0", "1", "2", "3", "4", "5", "6", "7", "8", "9"}
WhitespaceChars == {" ", "\t", "\n"}

\* The characters of the model's texts, in code-point order (for sorted()).
CodePoints == " ',-.0123456789:ABCDEFGHIJKLMNOPQRSTUVWXYZ_abcdefghijklmnopqrstuvwxyz"

CharAt(s, i) == SubSeq(s, i, i)

IsDigit(c) == c \in DigitChars
IsSpace(c) == c \in WhitespaceChars
IsUpper(c) == \E i \in 1..Len(UpperLetters) : CharAt(UpperLetters, i) = c
IsLower(c) == \E i \in 1..Len(LowerLetters) : CharAt(LowerLetters, i) = c
IsLetter(c) == IsUpper(c) \/ IsLower(c)

LowerChar(c) ==
    IF IsUpper(c)
    THEN CharAt(LowerLetters, CHOOSE i \in 1..Len(UpperLetters) : CharAt(UpperLetters, i) = c)
    ELSE c

UpperChar(c) ==
    IF IsLower(c)
    THEN CharAt(UpperLetters, CHOOSE i \in 1..Len(LowerLetters) : CharAt(LowerLetters, i) = c)
    ELSE c

\* str.lower(): character by character (by halves, to keep the recursion shallow)
RECURSIVE Lower(_)
Lower(s) ==
    IF Len(s) <= 1
    THEN LowerChar(s)
    ELSE Lower(SubSeq(s, 1, Len(s) \div 2)) \o Lower(SubSeq(s, Len(s) \div 2 + 1, Len(s)))

\* sub in s
Contains(sub, s) ==
    \E i \in 0..(Len(s) - Len(sub)) : SubSeq(s, i + 1, i + Len(sub)) = sub

\* s[i:].startswith(w), positions from 1
MatchesAt(s, i, w) ==
    /\ i >= 1
    /\ i + Len(w) - 1 <= Len(s)
    /\ SubSeq(s, i, i + Len(w) - 1) = w

\* str.strip()
RECURSIVE LStrip(_)
LStrip(s) == IF s # "" /\ IsSpace(CharAt(s, 1)) THEN LStrip(Tail(s)) ELSE s

RECURSIVE RStrip(_)
RStrip(s) ==
    IF s # "" /\ IsSpace(CharAt(s, Len(s)))
    THEN RStrip(SubSeq(s, 1, Len(s) - 1))
    ELSE s

Strip(s) == RStrip(LStrip(s))

\* str.split(): the maximal runs of non-whitespace characters, in order
RECURSIVE SplitFrom(_, _, _)
SplitFrom(s, i, word) ==
    IF i > Len(s)
    THEN IF word = "" THEN <<>> ELSE <<word>>
    ELSE IF IsSpace(CharAt(s, i))
         THEN (IF word = "" THEN <<>> ELSE <<word>>) \o SplitFrom(s, i + 1, "")
         ELSE SplitFrom(s, i + 1, word \o CharAt(s, i))

Split(s) == SplitFrom(s, 1, "")

\* str.split(sep) for a one-character separator: empty fields are kept
RECURSIVE SplitOnFrom(_, _, _, _)
SplitOnFrom(s, sep, i, field) ==
    IF i > Len(s)
    THEN <<field>>
    ELSE IF CharAt(s, i) = sep
         THEN <<field>> \o SplitOnFrom(s, sep, i + 1, "")
         ELSE SplitOnFrom(s, sep, i + 1, field \o CharAt(s, i))

SplitOn(s, sep) == SplitOnFrom(s, sep, 1, "")

Range(seq) == {seq[i] : i \in 1..Len(seq)}

\* str.title(): a letter after a non-letter is upper-cased, the others lower-cased
RECURSIVE TitleFrom(_, _, _)
TitleFrom(s, i, afterLetter) ==
    IF i > Len(s)
    THEN ""
    ELSE LET c == CharAt(s, i)
         IN  (IF afterLetter THEN LowerChar(c) ELSE UpperChar(c))
                 \o TitleFrom(s, i + 1, IsLetter(c))

Title(s) == TitleFrom(s, 1, FALSE)

\* Comparison of strings by code points, as sorted() compares them
Ord(c) == CHOOSE i \in 1..Len(CodePoints) : CharAt(CodePoints, i) = c

RECURSIVE StrLess(_, _)
StrLess(a, b) ==
    IF b = "" THEN FALSE
    ELSE IF a = "" THEN TRUE
    ELSE IF CharAt(a, 1) = CharAt(b, 1) THEN StrLess(Tail(a), Tail(b))
    ELSE Ord(CharAt(a, 1)) < Ord(CharAt(b, 1))

\* sorted(set of strings)
RECURSIVE Sorted(_)
Sorted(S) ==
    IF S = {}
    THEN <<>>
    ELSE LET m == CHOOSE x \in S : \A y \in S \ {x} : StrLess(x, y)
         IN  <<m>> \o Sorted(S \ {m})

\* sep.join(seq)
RECURSIVE Join(_, _)
Join(sep, seq) ==
    IF seq = <<>> THEN ""
    ELSE IF Len(seq) = 1 THEN seq[1]
    ELSE seq[1] \o sep \o Join(sep, Tail(seq))

\* int(digits) and str(n)
RECURSIVE ToInt(_)
ToInt(d) ==
    IF d = "" THEN 0
    ELSE 10 * ToInt(SubSeq(d, 1, Len(d) - 1))
            + (CHOOSE n \in 0..9 : CharAt("0123456789", n + 1) = CharAt(d, Len(d)))

RECURSIVE ToStr(_)
ToStr(n) ==
    IF n < 10 THEN CharAt("0123456789", n + 1)
    ELSE ToStr(n \div 10) \o CharAt("0123456789", (n % 10) + 1)

\* The end of the longest run of digits of s that starts at i (i - 1 if none)
RECURSIVE DigitsEnd(_, _)
DigitsEnd(s, i) ==
    IF i <= Len(s) /\ IsDigit(CharAt(s, i)) THEN DigitsEnd(s, i + 1) ELSE i - 1

\* The positions a \s* that starts at i may stop before
RECURSIVE SpacesEnd(_, _)
SpacesEnd(s, i) ==
    IF i <= Len(s) /\ IsSpace(CharAt(s, i)) THEN SpacesEnd(s, i + 1) ELSE i - 1

AfterSpaces(s, i) == i..(SpacesEnd(s, i) + 1)

(***************************************************************************)
(* PropertyKBHandler (voice_assistant/property_kb_handler.py)              *)
(*                                                                         *)
(* A listing is a record [location, price, features, status] of strings;   *)
(* the handler is a record of its fields: properties (the loaded list) and *)
(* the four structures __init__ derives from it.                           *)
(***************************************************************************)

Listing(location, price, features, status) ==
    [location |-> location, price |-> price, features |-> features, status |-> status]

\* _extract_locations: strip, skip the empty ones, lower-case
_extract_locations(properties) ==
    {Lower(Strip(properties[i].location)) :
        i \in {j \in 1..Len(properties) : Strip(properties[j].location) # ""}}

\* _extract_features: split a non-empty features string on commas, strip each field
_extract_features(properties) ==
    UNION {Range([k \in 1..Len(SplitOn(properties[i].features, ",")) |->
                      Strip(SplitOn(properties[i].features, ",")[k])]) :
           i \in {j \in 1..Len(properties) : properties[j].features # ""}}

\* The abbreviations _build_location_keywords adds when they occur in the location
LocationAbbreviations ==
    {"dubai", "palm", "jumeirah", "hills", "ranches", "estate", "jebel", "ali",
     "beach", "marina", "downtown", "emirates", "arabian"}

\* The keyword list of one lower-case location: itself, its words, its abbreviations
LocationKeywordsOf(location) ==
    {location} \cup Range(Split(location))
        \cup {a \in LocationAbbreviations : Contains(a, location)}

\* _build_location_keywords: keyed by the lower-case (unstripped) location
_build_location_keywords(properties) ==
    [location \in {Lower(properties[i].location) :
                      i \in {j \in 1..Len(properties) : properties[j].location # ""}}
        |-> LocationKeywordsOf(location)]

base_keywords ==
    {"property", "properties", "apartment", "apartments", "villa", "villas",
     "house", "houses", "home", "homes", "real estate", "buy", "purchase",
     "rent", "rental", "price", "cost", "location", "area", "bedroom",
     "bedrooms", "furnished", "unfurnished", "sea view", "beach", "pool",
     "gym", "garden", "amenities"}

\* _build_property_keywords: base terms, locations, lower-case features and their words
_build_property_keywords(locations, features) ==
    base_keywords \cup locations
        \cup {Lower(f) : f \in features}
        \cup UNION {Range(Split(Lower(f))) : f \in features}

\* __init__, after _load_properties returned `properties` ([] when loading failed)
PropertyKBHandler(properties) ==
    [properties |-> properties,
     locations |-> _extract_locations(properties),
     features |-> _extract_features(properties),
     location_keywords |-> _build_location_keywords(properties),
     property_keywords |->
         _build_property_keywords(_extract_locations(properties),
                                  _extract_features(properties))]

(***************************************************************************)
(* The regular expressions of the handler.  A search result is <<>> (no    *)
(* match) or <<group 1>>; findall is the sequence of the groups of the     *)
(* non-overlapping matches, left to right.                                 *)
(***************************************************************************)

MinOf(S) == CHOOSE x \in S : \A y \in S : x <= y
MaxOf(S) == CHOOSE x \in S : \A y \in S : y <= x

\* re.search(r'(\d+)' + word, s), or with \s* between the digits and the word
SearchDigitsThen(s, spaces, word) ==
    LET starts == {i \in 1..Len(s) :
                      /\ IsDigit(CharAt(s, i))
                      /\ \E p \in (IF spaces THEN AfterSpaces(s, DigitsEnd(s, i) + 1)
                                             ELSE {DigitsEnd(s, i) + 1}) :
                              MatchesAt(s, p, word)}
    IN  IF starts = {} THEN <<>>
        ELSE <<SubSeq(s, MinOf(starts), DigitsEnd(s, MinOf(starts)))>>

magnitude_words == {"million", "m", "k", "thousand"}
currency_words == {"aed", "dollar", "dollars", "dirham", "dirhams"}
budget_words == {"budget", "around", "upto", "max"}

\* The end of the number that starts at digit i: \d+ or, with fraction, \d+(?:\.\d+)?
NumberEnd(s, i, fraction) ==
    LET e == DigitsEnd(s, i)
    IN  IF fraction /\ MatchesAt(s, e + 1, ".") /\ DigitsEnd(s, e + 2) >= e + 2
        THEN DigitsEnd(s, e + 2)
        ELSE e

\* Where \s*(?:million|m|k|thousand)?\s*(?:words) may end when it starts at p
\* (the position after its last character)
UnitEnds(s, p, words) ==
    {q \in p..(Len(s) + 1) :
        \E p1 \in AfterSpaces(s, p) :
        \E p2 \in {p1} \cup {p1 + Len(m) : m \in {x \in magnitude_words : MatchesAt(s, p1, x)}} :
        \E p3 \in AfterSpaces(s, p2) :
        \E w \in words : MatchesAt(s, p3, w) /\ q = p3 + Len(w)}

\* re.findall(number \s* magnitude? \s* word, s) scanning from position pos
RECURSIVE NumberUnitFindAll(_, _, _, _)
NumberUnitFindAll(s, pos, fraction, words) ==
    IF pos > Len(s)
    THEN <<>>
    ELSE IF /\ IsDigit(CharAt(s, pos))
            /\ UnitEnds(s, NumberEnd(s, pos, fraction) + 1, words) # {}
         THEN <<SubSeq(s, pos, NumberEnd(s, pos, fraction))>>
                 \o NumberUnitFindAll(s, MaxOf(UnitEnds(s, NumberEnd(s, pos, fraction) + 1, words)),
                                      fraction, words)
         ELSE NumberUnitFindAll(s, pos + 1, fraction, words)

\* price_pattern: r'(\d+(?:\.\d+)?)\s*(?:million|m|k|thousand)?\s*(?:aed|dollars?|dirhams?)'
price_matches(query_lower) == NumberUnitFindAll(query_lower, 1, TRUE, currency_words)

\* budget_pattern: r'(\d+)\s*(?:million|m|k|thousand)?\s*(?:budget|around|upto|max)'
budget_matches(query_lower) == NumberUnitFindAll(query_lower, 1, FALSE, budget_words)

\* re.search(r'(\d+\.?\d*)M', property_price): digits, an optional dot, digits, then M
price_match(property_price) ==
    LET s == property_price
        End(i) == LET e == DigitsEnd(s, i)
                  IN  IF MatchesAt(s, e + 1, ".") THEN DigitsEnd(s, e + 2) ELSE e
        starts == {i \in 1..Len(s) :
                      IsDigit(CharAt(s, i)) /\ MatchesAt(s, End(i) + 1, "M")}
    IN  IF starts = {} THEN <<>>
        ELSE <<SubSeq(s, MinOf(starts), End(MinOf(starts)))>>

\* float(number) <= float(limit) for number = digits[.digits] and limit = digits
FloatLessEq(number, limit) ==
    LET e == DigitsEnd(number, 1)
        whole == ToInt(SubSeq(number, 1, e))
        frac == SubSeq(number, e + 2, Len(number))
    IN  \/ whole < ToInt(limit)
        \/ whole = ToInt(limit) /\ \A k \in 1..Len(frac) : CharAt(frac, k) = "0"

(***************************************************************************)
(* search_properties and its stages                                        *)
(***************************************************************************)

all_properties_queries == {"all properties", "all property", "all", "everything", "show all"}

\* Remove duplicates: the first listing of each key f"{location}_{price}_{features}"
prop_key(prop) == prop.location \o "_" \o prop.price \o "_" \o prop.features

RECURSIVE RemoveDuplicates(_, _)
RemoveDuplicates(matching_properties, seen) ==
    IF matching_properties = <<>>
    THEN <<>>
    ELSE LET prop == Head(matching_properties)
         IN  IF prop_key(prop) \in seen
             THEN RemoveDuplicates(Tail(matching_properties), seen)
             ELSE <<prop>> \o RemoveDuplicates(Tail(matching_properties),
                                               seen \cup {prop_key(prop)})

\* Search by location: a listing is appended once for a keyword of its location
\* and once more when its lower-case location occurs in the query
RECURSIVE LocationMatches(_, _, _)
LocationMatches(self, query_lower, i) ==
    IF i > Len(self.properties)
    THEN <<>>
    ELSE LET property_data == self.properties[i]
             location == Lower(property_data.location)
         IN  (IF /\ location \in DOMAIN self.location_keywords
                 /\ \E keyword \in self.location_keywords[location] :
                        Contains(keyword, query_lower)
              THEN <<property_data>> ELSE <<>>)
             \o (IF Contains(location, query_lower) THEN <<property_data>> ELSE <<>>)
             \o LocationMatches(self, query_lower, i + 1)

LocationStage(self, query_lower) ==
    RemoveDuplicates(LocationMatches(self, query_lower, 1), {})

\* FeatureStage with the whole query looked up in the features, the split() of
\* line 179 left out
FeatureStageWholeQuery(self, query_lower) ==
    LET Test(property_data) == Contains(query_lower, Lower(property_data.features))
    IN  SelectSeq(self.properties, Test)

\* Search by features: some whitespace-split token of the query occurs in the features
FeatureStage(self, query_lower) ==
    LET Test(property_data) ==
            \E keyword \in Range(Split(query_lower)) :
                Contains(keyword, Lower(property_data.features))
    IN  SelectSeq(self.properties, Test)

\* Search by price: some extracted numeral occurs in the lower-case price
PriceLiteralStage(self, query_lower) ==
    LET Test(property_data) ==
            \E price \in Range(price_matches(query_lower)) :
                Contains(price, Lower(property_data.price))
    IN  SelectSeq(self.properties, Test)

\* Search by budget: the listings whose "<number>M" price is at most the first numeral
BudgetCeilingStage(self, query_lower) ==
    LET Test(property_data) ==
            /\ price_match(property_data.price) # <<>>
            /\ FloatLessEq(price_match(property_data.price)[1],
                           budget_matches(query_lower)[1])
    IN  IF budget_matches(query_lower) = <<>> THEN <<>>
        ELSE SelectSeq(self.properties, Test)

\* search_stage without the test of line 149: every query enters the cascade
search_stage_without_shortcut(self, query) ==
    LET query_lower == Lower(query)
    IN  IF LocationStage(self, query_lower) # <<>> THEN "location"
        ELSE IF FeatureStage(self, query_lower) # <<>> THEN "feature"
        ELSE IF PriceLiteralStage(self, query_lower) # <<>> THEN "price"
        ELSE "budget"

\* search_properties with the feature stage run whatever the location stage found,
\* the test of line 176 left out
search_properties_accumulating(self, query) ==
    LET query_lower == Lower(query)
        found == LocationStage(self, query_lower) \o FeatureStage(self, query_lower)
    IN  IF query_lower \in all_properties_queries THEN self.properties
        ELSE IF found # <<>> THEN found
        ELSE IF PriceLiteralStage(self, query_lower) # <<>>
        THEN PriceLiteralStage(self, query_lower)
        ELSE BudgetCeilingStage(self, query_lower)

\* The stage whose result search_properties returns
search_stage(self, query) ==
    LET query_lower == Lower(query)
    IN  IF query_lower \in all_properties_queries THEN "all"
        ELSE IF LocationStage(self, query_lower) # <<>> THEN "location"
        ELSE IF FeatureStage(self, query_lower) # <<>> THEN "feature"
        ELSE IF PriceLiteralStage(self, query_lower) # <<>> THEN "price"
        ELSE "budget"

search_properties(self, query) ==
    LET query_lower == Lower(query)
        stage == search_stage(self, query)
    IN  CASE stage = "all" -> self.properties
          [] stage = "location" -> LocationStage(self, query_lower)
          [] stage = "feature" -> FeatureStage(self, query_lower)
          [] stage = "price" -> PriceLiteralStage(self, query_lower)
          [] OTHER -> BudgetCeilingStage(self, query_lower)

(***************************************************************************)
(* Response composition and the classifiers of the handler                 *)
(***************************************************************************)

\* _extract_bhk_from_features: both patterns are searched in the lower-cased features
_extract_bhk_from_features(features) ==
    LET features_lower == Lower(features)
        br_match == SearchDigitsThen(features_lower, FALSE, "BR")
        bedroom_match == SearchDigitsThen(features_lower, TRUE, "bedroom")
    IN  IF br_match # <<>> THEN br_match[1] \o " bhk"
        ELSE IF bedroom_match # <<>> THEN bedroom_match[1] \o " bhk"
        ELSE "apartment"

\* location_list with a fixed suggestion in place of the locations of the listings
location_list_static(self) == "Downtown Dubai, Dubai Marina, Palm Jumeirah"

\* ", ".join([loc.title() for loc in sorted(self.locations)])
location_list(self) ==
    LET sorted == Sorted(self.locations)
    IN  Join(", ", [i \in 1..Len(sorted) |-> Title(sorted[i])])

no_properties_found(self) == "No properties found. Try: " \o location_list(self) \o "."

RECURSIVE NumberedEntries(_, _, _)
NumberedEntries(properties, i, detailed) ==
    IF i > Len(properties)
    THEN ""
    ELSE LET prop == properties[i]
         IN  ToStr(i) \o ". " \o prop.location \o " "
                 \o _extract_bhk_from_features(prop.features) \o " " \o prop.price
                 \o (IF detailed THEN " - " \o prop.features ELSE "") \o ". "
                 \o NumberedEntries(properties, i + 1, detailed)

format_property_response(self, properties) ==
    IF properties = <<>> THEN no_properties_found(self)
    ELSE IF Len(properties) = 1
    THEN properties[1].location \o " "
             \o _extract_bhk_from_features(properties[1].features)
             \o " " \o properties[1].price
    ELSE Strip("Available properties: " \o NumberedEntries(properties, 1, FALSE))

format_detailed_property_response(self, properties) ==
    IF properties = <<>> THEN no_properties_found(self)
    ELSE IF Len(properties) = 1
    THEN properties[1].location \o " "
             \o _extract_bhk_from_features(properties[1].features)
             \o " " \o properties[1].price \o ". "
             \o "Features: " \o properties[1].features \o ". "
             \o "Status: " \o properties[1].status \o "."
    ELSE Strip("Property details: " \o NumberedEntries(properties, 1, TRUE))

get_default_response(self) ==
    "I'm a UAE property assistant. Ask about " \o location_list(self) \o "."

detail_keywords ==
    {"yes", "want", "details", "more", "information", "tell me", "show me", "provide"}

follow_up_phrases ==
    {"are you the only one", "only one", "just that", "only that",
     "is that all", "that's it", "nothing else", "any others",
     "more options", "other properties", "different ones",
     "what else", "anything else", "other locations", "other areas"}

pronoun_keywords == {"them", "those", "that", "this", "it"}

ContainsAny(keywords, s) == \E keyword \in keywords : Contains(keyword, s)

\* is_property_related_query without the follow-up keywords of lines 241-250
is_property_related_query_without_follow_up(self, query) ==
    \/ ContainsAny(self.property_keywords, Lower(query))
    \/ ContainsAny(detail_keywords, Lower(query))

is_property_related_query(self, query) ==
    \/ ContainsAny(self.property_keywords, Lower(query))
    \/ ContainsAny(detail_keywords, Lower(query))
    \/ ContainsAny(follow_up_phrases \cup pronoun_keywords, Lower(query))

general_keywords ==
    {"hello", "hi", "hey", "good morning", "good afternoon", "good evening",
     "how are you", "what is your name", "who are you", "tell me about yourself",
     "what can you do", "help", "pricing", "accounting", "services",
     "thank you", "thanks", "bye", "goodbye", "see you"}

emotional_keywords ==
    {"nice", "good", "great", "excellent", "perfect", "awesome", "amazing",
     "wow", "cool", "fantastic", "wonderful", "lovely", "beautiful",
     "that's nice", "that's good", "that's great", "sounds good",
     "okay", "ok", "alright", "fine", "sure", "yes", "yeah", "yep",
     "interesting", "impressive", "not bad", "pretty good"}

is_greeting_or_general_query(query) ==
    ContainsAny(general_keywords \cup emotional_keywords, Lower(query))

(***************************************************************************)
(* generate_response_with_cached_groq (voice_assistant/optimized_response) *)
(*                                                                         *)
(* A turn is [role, content, by, epoch]: `by` and `epoch` are not in the   *)
(* code, they record the request that appended the turn (0: none) and the  *)
(* list chat_history was bound to when that request arrived.               *)
(***************************************************************************)

Turn(role, content, by, epoch) ==
    [role |-> role, content |-> content, by |-> by, epoch |-> epoch]

\* The positions of chat_history whose role is `role`
RolePositions(chat_history, role) ==
    {i \in 1..Len(chat_history) : chat_history[i].role = role}

\* Get the latest user message ("" when there is none)
latest_user_message(chat_history) ==
    IF RolePositions(chat_history, "user") = {} THEN ""
    ELSE chat_history[MaxOf(RolePositions(chat_history, "user"))].content

property_indicators == {"property", "properties", "dubai", "aed", "bedroom", "bhk", "location"}
recent_property_terms == {"property", "properties", "dubai", "aed", "bedroom"}

\* The follow-up keyword test: only the last assistant message is inspected
FollowUpKeywordCheck(user_message_lower, chat_history) ==
    /\ ContainsAny(follow_up_phrases, user_message_lower)
    /\ RolePositions(chat_history, "assistant") # {}
    /\ ContainsAny(property_indicators,
                   Lower(chat_history[MaxOf(RolePositions(chat_history, "assistant"))].content))

\* PronounCheck over the whole history, the chat_history[-4:] of line 121 left out
PronounCheckUnbounded(user_message_lower, chat_history) ==
    /\ ContainsAny(pronoun_keywords, user_message_lower)
    /\ \E i \in RolePositions(chat_history, "assistant") :
           ContainsAny(recent_property_terms, Lower(chat_history[i].content))

\* The pronoun test: the assistant messages among chat_history[-4:]
PronounCheck(user_message_lower, chat_history) ==
    /\ ContainsAny(pronoun_keywords, user_message_lower)
    /\ \E i \in RolePositions(chat_history, "assistant") :
           /\ i > Len(chat_history) - 4
           /\ ContainsAny(recent_property_terms, Lower(chat_history[i].content))

\* _is_follow_up_about_properties without the role tests of lines 109 and 123:
\* every message of the history counts as context
_is_follow_up_ignoring_roles(user_message, chat_history) ==
    \/ /\ ContainsAny(follow_up_phrases, Lower(user_message))
       /\ chat_history # <<>>
       /\ ContainsAny(property_indicators, Lower(chat_history[Len(chat_history)].content))
    \/ /\ ContainsAny(pronoun_keywords, Lower(user_message))
       /\ \E i \in 1..Len(chat_history) :
              /\ i > Len(chat_history) - 4
              /\ ContainsAny(recent_property_terms, Lower(chat_history[i].content))

_is_follow_up_about_properties(user_message, chat_history) ==
    \/ FollowUpKeywordCheck(Lower(user_message), chat_history)
    \/ PronounCheck(Lower(user_message), chat_history)

property_system_instruction ==
    "You are a UAE property assistant. Provide very short, direct responses. "
        \o "Maximum 25 words. Use key facts only."

greeting_system_instruction ==
    "You are a UAE property assistant. Provide very short responses. "
        \o "Maximum 20 words for greetings. For emotional responses like "
        \o "'that's nice', respond naturally and professionally."

enhanced_prompt(user_message, property_response) ==
    "\n                User: " \o user_message
        \o "\n                Property data: " \o property_response
        \o "\n                \n                Provide a very short response. "
        \o "Maximum 25 words. Key facts only.\n                "

\* property_search_query without the branch of lines 32-33: always the user's text
property_search_query_user_text(user_message, is_follow_up_question) == user_message

\* The query the property branch hands to search_properties
property_search_query(user_message, is_follow_up_question) ==
    IF is_follow_up_question THEN "all properties" ELSE user_message

\* generate_response_branch with the greeting test of line 64 made before the
\* property test of line 26
generate_response_branch_greeting_first(self, user_message, chat_history) ==
    LET is_follow_up_question == _is_follow_up_about_properties(user_message, chat_history)
        is_detail_request == ContainsAny(detail_keywords, Lower(user_message))
        search_query == property_search_query(user_message, is_follow_up_question)
        matching_properties == search_properties(self, search_query)
    IN  IF is_greeting_or_general_query(user_message)
        THEN [branch |-> "greeting", returned |-> FALSE,
              is_follow_up_question |-> is_follow_up_question,
              searched |-> <<>>, matching_properties |-> <<>>, text |-> "",
              messages |-> chat_history \o <<Turn("system", greeting_system_instruction, 0, 0)>>]
        ELSE IF is_property_related_query(self, user_message) \/ is_follow_up_question
        THEN IF is_detail_request /\ matching_properties # <<>>
             THEN [branch |-> "detailed", returned |-> TRUE,
                   is_follow_up_question |-> is_follow_up_question,
                   searched |-> <<search_query>>,
                   matching_properties |-> matching_properties,
                   text |-> format_detailed_property_response(self, matching_properties),
                   messages |-> <<>>]
             ELSE [branch |-> "concise", returned |-> FALSE,
                   is_follow_up_question |-> is_follow_up_question,
                   searched |-> <<search_query>>,
                   matching_properties |-> matching_properties,
                   text |-> "",
                   messages |-> chat_history \o
                       <<Turn("system", property_system_instruction, 0, 0),
                         Turn("user",
                              enhanced_prompt(user_message,
                                  format_property_response(self, matching_properties)),
                              0, 0)>>]
        ELSE [branch |-> "default", returned |-> TRUE,
              is_follow_up_question |-> is_follow_up_question,
              searched |-> <<>>, matching_properties |-> <<>>,
              text |-> get_default_response(self), messages |-> <<>>]

\* Lines 22-74: the branch taken for user_message against chat_history.  `returned`
\* says the function returns `text` itself; otherwise it goes on to call the
\* language model with `messages` (the copy of chat_history with the instruction
\* turns appended).  `searched` is <<>> or <<the query given to search_properties>>.
generate_response_branch(self, user_message, chat_history) ==
    LET is_follow_up_question == _is_follow_up_about_properties(user_message, chat_history)
        is_detail_request == ContainsAny(detail_keywords, Lower(user_message))
        search_query == property_search_query(user_message, is_follow_up_question)
        matching_properties == search_properties(self, search_query)
    IN  IF is_property_related_query(self, user_message) \/ is_follow_up_question
        THEN IF is_detail_request /\ matching_properties # <<>>
             THEN [branch |-> "detailed", returned |-> TRUE,
                   is_follow_up_question |-> is_follow_up_question,
                   searched |-> <<search_query>>,
                   matching_properties |-> matching_properties,
                   text |-> format_detailed_property_response(self, matching_properties),
                   messages |-> <<>>]
             ELSE [branch |-> "concise", returned |-> FALSE,
                   is_follow_up_question |-> is_follow_up_question,
                   searched |-> <<search_query>>,
                   matching_properties |-> matching_properties,
                   text |-> "",
                   messages |-> chat_history \o
                       <<Turn("system", property_system_instruction, 0, 0),
                         Turn("user",
                              enhanced_prompt(user_message,
                                  format_property_response(self, matching_properties)),
                              0, 0)>>]
        ELSE IF is_greeting_or_general_query(user_message)
        THEN [branch |-> "greeting", returned |-> FALSE,
              is_follow_up_question |-> is_follow_up_question,
              searched |-> <<>>, matching_properties |-> <<>>, text |-> "",
              messages |-> chat_history \o <<Turn("system", greeting_system_instruction, 0, 0)>>]
        ELSE [branch |-> "default", returned |-> TRUE,
              is_follow_up_question |-> is_follow_up_question,
              searched |-> <<>>, matching_properties |-> <<>>,
              text |-> get_default_response(self), messages |-> <<>>]

(***************************************************************************)
(* The server (voice_assistant_api.py): the handlers that share the global *)
(* chat_history, run by one thread per request (app.run(threaded=True)).   *)
(***************************************************************************)

VARIABLES
    property_kb,    \* optimized_response.property_kb, the PropertyKBHandler
    histories,      \* the list objects ever bound to chat_history, by identity
    chat_history,   \* the global name: the identity of the list it is bound to
    requests,       \* per server thread: the locals of its process_user_input call
    arrivals,       \* how many process_user_input requests have arrived
    output_wav,     \* the file output.wav: <<>> (absent) or <<the text it speaks>>
    call            \* the last direct call of a handler method, with its result

vars == <<property_kb, histories, chat_history, requests, arrivals, output_wav, call>>

MaxRequests == 2
MaxTurns == 2
MaxResets == 1

\* The server threads: at most MaxRequests requests are in flight together
Requests == 1..MaxRequests

initial_system_prompt ==
    " You are a UAE Property Assistant called Verbi. \n"
        \o "     You are professional and very concise, specializing in UAE real estate information.\n"
        \o "     You can help users with property queries, greetings, pricing, and accounting questions.\n"
        \o "     Provide very short answers under 25 words. Key facts only. "

cleared_system_prompt ==
    " You are a helpful Assistant called Verbi. \n"
        \o "         You are friendly and fun and you will help the users with their requests.\n"
        \o "         Your answers are short and concise. "

started_system_prompt(language) ==
    " You are a UAE Property Assistant called Verbi. \n"
        \o "             You are professional and very concise, specializing in UAE real estate information.\n"
        \o "             You can help users with property queries, greetings, pricing, and accounting questions.\n"
        \o "             Provide very short answers under 25 words. Key facts only. Please respond in "
        \o language \o ". "

\* The locals of a thread with no request in flight; status is that of its last
\* answer and e the exception that answer reported (line 497)
IdleRequest ==
    [pc |-> "idle", id |-> 0, epoch |-> 0, user_input |-> "", passed |-> 0,
     user_message |-> "", is_follow_up_question |-> FALSE, branch |-> "",
     searched |-> <<>>, matching_properties |-> <<>>, groq_calls |-> 0,
     response_text |-> "", audio_data |-> "", e |-> "", status |-> 0]

\* return jsonify(...), status: the call is over and its locals are gone
Answered(status) == [IdleRequest EXCEPT !.status = status]

\* An upload: the multipart request of process_user_input and what Deepgram hears in it
Upload(has_audio, filename, transcript) ==
    [has_audio |-> has_audio, filename |-> filename, transcript |-> transcript]

Spoken(transcript) == Upload(TRUE, "audio.wav", transcript)
NoAudio == Upload(FALSE, "", "")
NoFilename == Upload(TRUE, "", "")

\* A list that neither chat_history nor a running generate_response_with_cached_groq
\* refers to is garbage: its content is dropped
Collected(lists, bound, locals) ==
    [k \in 1..Len(lists) |->
        IF k = bound \/ \E r \in Requests : locals[r].pc = "extracted" /\ locals[r].passed = k
        THEN lists[k]
        ELSE <<>>]

\* process_user_input, lines 440-471: validate, transcribe, append the user turn.
\* The request is served by the first free thread.
Receive(r, upload) ==
    /\ requests[r].pc = "idle"
    /\ \A other \in 1..(r - 1) : requests[other].pc # "idle"
    /\ arrivals < MaxTurns
    /\ arrivals' = arrivals + 1
    /\ IF ~upload.has_audio \/ upload.filename = "" \/ Strip(upload.transcript) = ""
       THEN /\ requests' = [requests EXCEPT ![r] = Answered(400)]
            /\ UNCHANGED histories
       ELSE /\ requests' = [requests EXCEPT ![r] =
                   [IdleRequest EXCEPT !.pc = "appended", !.id = arrivals + 1,
                                       !.epoch = chat_history,
                                       !.user_input = upload.transcript]]
            /\ histories' = [histories EXCEPT ![chat_history] =
                   Append(@, Turn("user", upload.transcript, arrivals + 1, chat_history))]
    /\ UNCHANGED <<property_kb, chat_history, output_wav, call>>

\* Line 472 and generate_response_with_cached_groq lines 15-20: the list bound to
\* chat_history is passed, and the latest user message is read from it
ExtractUserMessage(r) ==
    /\ requests[r].pc = "appended"
    /\ requests' = [requests EXCEPT
           ![r].pc = "extracted",
           ![r].passed = chat_history,
           ![r].user_message = latest_user_message(histories[chat_history])]
    /\ UNCHANGED <<property_kb, histories, chat_history, arrivals, output_wav, call>>

\* GenerateResponse with the language model called on every path, the returns of
\* lines 40 and 74 left out
GenerateResponseAlwaysCalling(r, reply) ==
    /\ requests[r].pc = "extracted"
    /\ \E b \in {generate_response_branch(property_kb, requests[r].user_message,
                                          histories[requests[r].passed])} :
          /\ requests' = [requests EXCEPT
                 ![r].pc = "generated",
                 ![r].is_follow_up_question = b.is_follow_up_question,
                 ![r].branch = b.branch,
                 ![r].searched = b.searched,
                 ![r].matching_properties = b.matching_properties,
                 ![r].groq_calls = 1,
                 ![r].response_text = reply]
          /\ histories' = Collected(histories, chat_history, requests')
    /\ UNCHANGED <<property_kb, chat_history, arrivals, output_wav, call>>

\* GenerateResponse with the instruction turns appended to the list passed in, the
\* chat_history.copy() of lines 54 and 66 left out
GenerateResponseInPlace(r, reply) ==
    /\ requests[r].pc = "extracted"
    /\ \E b \in {generate_response_branch(property_kb, requests[r].user_message,
                                          histories[requests[r].passed])} :
          /\ requests' = [requests EXCEPT
                 ![r].pc = "generated",
                 ![r].is_follow_up_question = b.is_follow_up_question,
                 ![r].branch = b.branch,
                 ![r].searched = b.searched,
                 ![r].matching_properties = b.matching_properties,
                 ![r].groq_calls = IF b.returned THEN 0 ELSE 1,
                 ![r].response_text = IF b.returned THEN b.text ELSE reply]
          /\ histories' = Collected([histories EXCEPT ![requests[r].passed] =
                                        IF b.returned THEN @ ELSE b.messages],
                                    chat_history, requests')
    /\ UNCHANGED <<property_kb, chat_history, arrivals, output_wav, call>>

\* generate_response_with_cached_groq lines 22-85: classify against the passed list
\* and return the composed text or, on the concise and greeting paths, the `reply`
\* of the language model
GenerateResponse(r, reply) ==
    /\ requests[r].pc = "extracted"
    /\ \E b \in {generate_response_branch(property_kb, requests[r].user_message,
                                          histories[requests[r].passed])} :
          /\ requests' = [requests EXCEPT
                 ![r].pc = "generated",
                 ![r].is_follow_up_question = b.is_follow_up_question,
                 ![r].branch = b.branch,
                 ![r].searched = b.searched,
                 ![r].matching_properties = b.matching_properties,
                 ![r].groq_calls = IF b.returned THEN 0 ELSE 1,
                 ![r].response_text = IF b.returned THEN b.text ELSE reply]
          /\ histories' = Collected(histories, chat_history, requests')
    /\ UNCHANGED <<property_kb, chat_history, arrivals, output_wav, call>>

\* GenerateResponseError with the exception swallowed: a fallback text is returned
\* in place of the raise of line 89
GenerateResponseErrorFallback(r, error) ==
    /\ requests[r].pc = "extracted"
    /\ \E b \in {generate_response_branch(property_kb, requests[r].user_message,
                                          histories[requests[r].passed])} :
          /\ ~b.returned
          /\ requests' = [requests EXCEPT
                 ![r].pc = "generated",
                 ![r].branch = b.branch,
                 ![r].groq_calls = 1,
                 ![r].e = error,
                 ![r].response_text = "Sorry, something went wrong."]
    /\ histories' = Collected(histories, chat_history, requests')
    /\ UNCHANGED <<property_kb, chat_history, arrivals, output_wav, call>>

\* GenerateResponseError with the user turn of line 471 taken back when the call fails
GenerateResponseErrorRollback(r, error) ==
    /\ requests[r].pc = "extracted"
    /\ \E b \in {generate_response_branch(property_kb, requests[r].user_message,
                                          histories[requests[r].passed])} :
          /\ ~b.returned
          /\ requests' = [requests EXCEPT ![r] =
                 [Answered(500) EXCEPT !.branch = b.branch, !.groq_calls = 1, !.e = error]]
    /\ histories' = Collected([histories EXCEPT ![chat_history] =
                                  SelectSeq(@, LAMBDA turn : turn.by # requests[r].id)],
                              chat_history, requests')
    /\ UNCHANGED <<property_kb, chat_history, arrivals, output_wav, call>>

\* Lines 77-89 and 497-499: the language model call raises `error`; it is logged
\* and re-raised, and process_user_input answers 500 with its text
GenerateResponseError(r, error) ==
    /\ requests[r].pc = "extracted"
    /\ \E b \in {generate_response_branch(property_kb, requests[r].user_message,
                                          histories[requests[r].passed])} :
          /\ ~b.returned
          /\ requests' = [requests EXCEPT ![r] =
                 [Answered(500) EXCEPT !.branch = b.branch, !.groq_calls = 1, !.e = error]]
    /\ histories' = Collected(histories, chat_history, requests')
    /\ UNCHANGED <<property_kb, chat_history, arrivals, output_wav, call>>

\* AppendAssistant with the history trimmed: the oldest turn after the system turn
\* is dropped when the reply is appended
AppendAssistantTrimming(r) ==
    /\ requests[r].pc = "generated"
    /\ histories' = [histories EXCEPT ![chat_history] =
           Append(<<@[1]>> \o SubSeq(@, 3, Len(@)),
                  Turn("assistant", requests[r].response_text,
                       requests[r].id, requests[r].epoch))]
    /\ requests' = [requests EXCEPT ![r].pc = "replied"]
    /\ UNCHANGED <<property_kb, chat_history, arrivals, output_wav, call>>

\* Line 473
AppendAssistant(r) ==
    /\ requests[r].pc = "generated"
    /\ histories' = [histories EXCEPT ![chat_history] =
           Append(@, Turn("assistant", requests[r].response_text,
                          requests[r].id, requests[r].epoch))]
    /\ requests' = [requests EXCEPT ![r].pc = "replied"]
    /\ UNCHANGED <<property_kb, chat_history, arrivals, output_wav, call>>

\* Lines 475-481: Deepgram writes the speech of response_text to output.wav
Synthesize(r) ==
    /\ requests[r].pc = "replied"
    /\ output_wav' = <<requests[r].response_text>>
    /\ requests' = [requests EXCEPT ![r].pc = "synthesized"]
    /\ UNCHANGED <<property_kb, histories, chat_history, arrivals, call>>

\* Line 481 raising (tts_with_cached_deepgram re-raises): answer 500
SynthesizeError(r) ==
    /\ requests[r].pc = "replied"
    /\ requests' = [requests EXCEPT ![r] = [Answered(500) EXCEPT !.e = "Deepgram TTS error"]]
    /\ UNCHANGED <<property_kb, histories, chat_history, arrivals, output_wav, call>>

\* Lines 483-485: open and read output.wav (FileNotFoundError: answer 500)
ReadAudio(r) ==
    /\ requests[r].pc = "synthesized"
    /\ requests' = [requests EXCEPT ![r] =
           IF output_wav = <<>>
           THEN [Answered(500) EXCEPT !.e = "No such file or directory: 'output.wav'"]
           ELSE [@ EXCEPT !.pc = "read", !.audio_data = output_wav[1]]]
    /\ UNCHANGED <<property_kb, histories, chat_history, arrivals, output_wav, call>>

\* Line 488: delete_file(output.wav)
DeleteFile(r) ==
    /\ requests[r].pc = "read"
    /\ output_wav' = <<>>
    /\ requests' = [requests EXCEPT ![r].pc = "deleted"]
    /\ UNCHANGED <<property_kb, histories, chat_history, arrivals, call>>

\* Lines 490-495: the 200 answer
Return(r) ==
    /\ requests[r].pc = "deleted"
    /\ requests' = [requests EXCEPT ![r] = Answered(200)]
    /\ UNCHANGED <<property_kb, histories, chat_history, arrivals, output_wav, call>>

\* The reset of both handlers: chat_history is rebound to a new one-turn list
Rebind(system_prompt) ==
    /\ Len(histories) <= MaxResets
    /\ histories' = Collected(Append(histories, <<Turn("system", system_prompt, 0, 0)>>),
                              Len(histories) + 1, requests)
    /\ chat_history' = Len(histories) + 1
    /\ UNCHANGED <<property_kb, requests, arrivals, output_wav, call>>

\* DELETE /chat-history
clear_chat_history == Rebind(cleared_system_prompt)

\* POST /api/start_conversation, lines 361-373 (the greeting that follows is
\* spoken into greeting.wav and touches nothing else)
start_conversation(language) == Rebind(started_system_prompt(language))

(***************************************************************************)
(* Direct calls of the handler's methods, as src/test_context.py makes     *)
(* them: `call` records the method, its argument and its result.           *)
(***************************************************************************)

NoCall == [method |-> "", argument |-> "", result |-> ""]

SearchProperties(query) ==
    /\ call' = [method |-> "search_properties", argument |-> query,
                result |-> search_properties(property_kb, query)]
    /\ UNCHANGED <<property_kb, histories, chat_history, requests, arrivals, output_wav>>

\* format_property_response of the list the last search returned
FormatPropertyResponse ==
    /\ call.method = "search_properties"
    /\ call' = [method |-> "format_property_response", argument |-> call.result,
                result |-> format_property_response(property_kb, call.result)]
    /\ UNCHANGED <<property_kb, histories, chat_history, requests, arrivals, output_wav>>

ExtractBhk(features) ==
    /\ call' = [method |-> "_extract_bhk_from_features", argument |-> features,
                result |-> _extract_bhk_from_features(features)]
    /\ UNCHANGED <<property_kb, histories, chat_history, requests, arrivals, output_wav>>

\* generate_response_with_cached_groq called on a conversation, up to the language
\* model call: the result is the branch record of lines 22-74
GenerateResponseWithCachedGroq(turns) ==
    /\ call' = [method |-> "generate_response_with_cached_groq", argument |-> turns,
                result |-> generate_response_branch(property_kb,
                                                    latest_user_message(turns), turns)]
    /\ UNCHANGED <<property_kb, histories, chat_history, requests, arrivals, output_wav>>

(***************************************************************************)
(* Inputs                                                                  *)
(***************************************************************************)

DowntownDubai == Listing("Downtown Dubai", "3.8M AED", "2BR, Burj Khalifa view", "available")
DubaiMarina == Listing("Dubai Marina", "1.5M AED", "1BR, sea view, pool", "available")
PalmJumeirah == Listing("Palm Jumeirah", "3M AED", "5 bedroom villa, beach", "sold")
Unplaced == Listing("", "950K AED", "studio,, balcony", "available")

ListingPool == {DowntownDubai, DubaiMarina, PalmJumeirah, Unplaced}

MaxListings == 2

\* The lists _load_properties may return: [] (also when loading failed) and the
\* lists of up to MaxListings listings, repetitions included
KnowledgeBases == UNION {[1..n -> ListingPool] : n \in 0..MaxListings}

Queries ==
    {"all properties", "all property", "ALL", "everything", "3.8 million",
     "2.5 million budget",
     "Show All", " all properties ", "downtown", "pool",
     "budget 2 million", "2 million budget", "3.8 million aed", "xyz", ""}

FeatureTexts ==
    {"2BR", "12BR, pool", "2br", "3 Bedrooms", "1BR 4 bedroom", "studio", "", "BR 7"}
        \cup {l.features : l \in ListingPool}

\* The server's knowledge base: a loaded one, or the empty one of a failed load
SampleKB == <<DowntownDubai, DubaiMarina>>

ServerUploads == {Spoken("hello"), Spoken("xyz")}
ServerReplies == {"Hello! How can I help?"}

DialogUploads ==
    {Spoken("show me marina villas"), Spoken("Are you the only one of them?"),
     Spoken("hello"), Spoken("xyz"), NoAudio}
DialogReplies == {"Hello! How can I help?", "Downtown Dubai: 3.8M AED for a 2BR apartment"}

\* The conversations generate_response_with_cached_groq is called on directly: the
\* system turn, earlier turns and the user message to answer
EarlierTurns ==
    {<<>>,
     <<Turn("user", "marina", 0, 0),
       Turn("assistant", "Dubai Marina apartment 1.5M AED", 0, 0)>>,
     <<Turn("user", "hello", 0, 0),
       Turn("assistant", "Hello! How can I help?", 0, 0)>>,
     <<Turn("user", "marina", 0, 0),
       Turn("assistant", "Dubai Marina apartment 1.5M AED", 0, 0),
       Turn("user", "thanks", 0, 0),
       Turn("assistant", "You are welcome.", 0, 0),
       Turn("user", "bye", 0, 0),
       Turn("assistant", "Goodbye!", 0, 0)>>}

UserMessages ==
    {"yes", "hello", "xyz", "show me marina", "show me villas", "what else",
     "any others", "Are you the only one of them?", "tell me about yourself",
     "thanks", "marina", "is that all", "price of those", ""}

Conversations ==
    {<<Turn("system", initial_system_prompt, 0, 0)>> \o earlier
         \o <<Turn("user", user_message, 0, 0)>> :
        earlier \in EarlierTurns, user_message \in UserMessages}

\* The errors the language model call raises
GroqErrors == {"Rate limit reached"}

Languages == {"English"}

(***************************************************************************)
(* Specifications                                                          *)
(***************************************************************************)

InitServer ==
    /\ histories = <<<<Turn("system", initial_system_prompt, 0, 0)>>>>
    /\ chat_history = 1
    /\ requests = [r \in Requests |-> IdleRequest]
    /\ arrivals = 0
    /\ output_wav = <<>>
    /\ call = NoCall

\* The server with a loaded knowledge base and concurrent requests
Init ==
    /\ property_kb = PropertyKBHandler(SampleKB)
    /\ InitServer

Step(r) ==
    \/ ExtractUserMessage(r)
    \/ AppendAssistant(r)
    \/ Synthesize(r)
    \/ SynthesizeError(r)
    \/ ReadAudio(r)
    \/ DeleteFile(r)
    \/ Return(r)

Next ==
    \/ \E r \in Requests : \E upload \in ServerUploads : Receive(r, upload)
    \/ \E r \in Requests : \E reply \in ServerReplies : GenerateResponse(r, reply)
    \/ \E r \in Requests : \E error \in GroqErrors : GenerateResponseError(r, error)
    \/ \E r \in Requests : Step(r)
    \/ clear_chat_history
    \/ \E language \in Languages : start_conversation(language)

Spec == Init /\ [][Next]_vars

\* One conversation, a turn at a time, over a loaded or an empty knowledge base
Quiet == \A r \in Requests : requests[r].pc = "idle"

InitDialog ==
    /\ property_kb \in {PropertyKBHandler(<<>>), PropertyKBHandler(SampleKB)}
    /\ InitServer

NextDialog ==
    \/ \E r \in Requests : \E upload \in DialogUploads : Quiet /\ Receive(r, upload)
    \/ \E r \in Requests : \E reply \in DialogReplies : GenerateResponse(r, reply)
    \/ \E r \in Requests : \E error \in GroqErrors : GenerateResponseError(r, error)
    \/ \E r \in Requests : Step(r)
    \/ Quiet /\ clear_chat_history
    \/ \E language \in Languages : Quiet /\ start_conversation(language)

SpecDialog == InitDialog /\ [][NextDialog]_vars

\* The handler's methods called directly on every knowledge base
InitKB ==
    /\ property_kb \in {PropertyKBHandler(properties) : properties \in KnowledgeBases}
    /\ InitServer

NextKB ==
    \/ \E query \in Queries : SearchProperties(query)
    \/ FormatPropertyResponse
    \/ \E features \in FeatureTexts : ExtractBhk(features)

SpecKB == InitKB /\ [][NextKB]_vars

\* generate_response_with_cached_groq called directly on conversations
InitGen ==
    /\ property_kb \in {PropertyKBHandler(<<>>), PropertyKBHandler(SampleKB)}
    /\ InitServer

NextGen == \E turns \in Conversations : GenerateResponseWithCachedGroq(turns)

SpecGen == InitGen /\ [][NextGen]_vars

(***************************************************************************)
(* Properties                                                              *)
(***************************************************************************)

\* Thread r leaves generate_response_with_cached_groq with a value in this step
Generated(r) == requests[r].pc = "extracted" /\ requests'[r].pc = "generated"

\* The turns a request appended to the list bound to chat_history
StoredTurns == histories[chat_history]

\* C1: with concurrent process_user_input requests the appends are serialized: in
\* every list, the assistant turn of a request comes directly after the user turn
\* of that request, no other request's turn lies between them.
TurnsSerialized ==
    \A k \in 1..Len(histories) :
        \A i, j \in 1..Len(histories[k]) :
            (/\ i < j
             /\ histories[k][i].role = "user"
             /\ histories[k][j].role = "assistant"
             /\ histories[k][i].by = histories[k][j].by)
                => j = i + 1

\* C2: reset is total: the list bound to chat_history starts with the system turn
\* and holds no user or assistant turn of a request that began before the reset
\* which created the list.
ResetIsTotal ==
    /\ StoredTurns[1].role = "system"
    /\ \A i \in 2..Len(StoredTurns) : StoredTurns[i].epoch = chat_history

\* C3: right after a reset the turn sequence is one system turn, and a user message
\* classified against a sequence without assistant turn is never a follow-up,
\* whatever phrases or pronouns it contains.
NoFollowUpAfterReset ==
    [][/\ chat_history' # chat_history =>
              /\ Len(histories'[chat_history']) = 1
              /\ histories'[chat_history'][1].role = "system"
       /\ \A r \in Requests :
              (Generated(r) /\ RolePositions(histories[requests[r].passed], "assistant") = {})
                  => ~requests'[r].is_follow_up_question]_vars

\* A first message after a reset, with a referential phrase and a pronoun, was
\* classified as no follow-up and searched with its own text
ReferentialMessageAfterReset ==
    \E r \in Requests :
        /\ requests[r].pc = "generated"
        /\ chat_history > 1
        /\ requests[r].passed = chat_history
        /\ Len(StoredTurns) = 2
        /\ StoredTurns[2].role = "user"
        /\ ContainsAny(follow_up_phrases, Lower(requests[r].user_message))
        /\ ContainsAny(pronoun_keywords, Lower(requests[r].user_message))
        /\ ~requests[r].is_follow_up_question
        /\ requests[r].searched = <<requests[r].user_message>>

\* Two listings at different positions of a search result share the composite key
DuplicateKeys(properties) ==
    \E i, j \in 1..Len(properties) : i < j /\ prop_key(properties[i]) = prop_key(properties[j])

\* C4: whichever stage of the cascade produced it, the result of search_properties
\* holds at most one listing for each composite key (location, price, features).
SearchResultDeduplicated ==
    (call.method = "search_properties" /\ search_stage(property_kb, call.argument) # "all")
        => ~DuplicateKeys(call.result)

\* C5: a features string with digits d followed by "BR" gives "d bhk", and a
\* features string with neither a digits-BR nor a digits-bedroom pattern gives
\* "apartment".
BhkFromFeatures ==
    call.method = "_extract_bhk_from_features" =>
        LET br == SearchDigitsThen(call.argument, FALSE, "BR")
            bedroom == SearchDigitsThen(Lower(call.argument), TRUE, "bedroom")
        IN  /\ br # <<>> => call.result = br[1] \o " bhk"
            /\ (br = <<>> /\ bedroom = <<>>) => call.result = "apartment"

\* C6: for "budget 2 million" over listings matching neither the location nor the
\* feature stage, the result includes the listings priced "1.5M AED" and excludes
\* those priced "3M AED".
BudgetBeforeNumeral ==
    (/\ call.method = "search_properties"
     /\ call.argument = "budget 2 million"
     /\ LocationStage(property_kb, "budget 2 million") = <<>>
     /\ FeatureStage(property_kb, "budget 2 million") = <<>>)
        => \A i \in 1..Len(property_kb.properties) :
               LET property_data == property_kb.properties[i]
               IN  /\ property_data.price = "1.5M AED" => property_data \in Range(call.result)
                   /\ property_data.price = "3M AED" => property_data \notin Range(call.result)

\* C7: a query whose lower-case form is one of the "all properties" literals returns
\* every listing in source order, whatever the index holds and whatever the later
\* stages would have matched.
AllPropertiesReturnsEverything ==
    (call.method = "search_properties" /\ Lower(call.argument) \in all_properties_queries)
        => call.result = property_kb.properties

\* "Show All" returned both listings of a knowledge base of which the location
\* stage alone would have matched only a part
ShowAllReturnedEverything ==
    /\ call.method = "search_properties"
    /\ call.argument = "Show All"
    /\ Len(property_kb.properties) = 2
    /\ call.result = property_kb.properties
    /\ Len(LocationStage(property_kb, "show all")) = 1

\* The message has a referential phrase and the nearest assistant turn before it
\* has a property indicator
ReferentialFollowUp(user_message, turns) ==
    /\ \E phrase \in follow_up_phrases : Contains(phrase, Lower(user_message))
    /\ \E i \in 1..Len(turns) :
           /\ turns[i].role = "assistant"
           /\ \A j \in (i + 1)..Len(turns) : turns[j].role # "assistant"
           /\ \E indicator \in property_indicators : Contains(indicator, Lower(turns[i].content))

\* C8: when the message has a referential phrase and the nearest preceding assistant
\* turn has a property indicator, the message is a follow-up, search_properties is
\* called with "all properties" and not with the user's text, and the matched set
\* is the full listing set.
FollowUpSearchesAllProperties ==
    [][\A r \in Requests :
           (Generated(r)
            /\ ReferentialFollowUp(requests[r].user_message, histories[requests[r].passed]))
               => /\ requests'[r].is_follow_up_question
                  /\ requests'[r].searched = <<"all properties">>
                  /\ requests'[r].matching_properties = property_kb.properties]_vars

\* "Are you the only one of them?" after an assistant turn naming a listing was
\* answered from the full listing set
FollowUpAnswered ==
    \E r \in Requests :
        /\ requests[r].pc = "generated"
        /\ requests[r].user_message = "Are you the only one of them?"
        /\ ReferentialFollowUp(requests[r].user_message, StoredTurns)
        /\ requests[r].is_follow_up_question
        /\ requests[r].searched = <<"all properties">>
        /\ Len(requests[r].matching_properties) = 2

\* C9: with an empty listing set search_properties returns the empty sequence for
\* every query, and format_property_response([]) is the no-match message with an
\* empty location list.
EmptyListingSet ==
    property_kb.properties = <<>> =>
        /\ call.method = "search_properties" => call.result = <<>>
        /\ call.method = "format_property_response" =>
               call.result = "No properties found. Try: ."

\* Over the empty listing set the empty result of a search was formatted
EmptySearchFormatted ==
    /\ property_kb.properties = <<>>
    /\ call.method = "format_property_response"
    /\ call.argument = <<>>
    /\ call.result = "No properties found. Try: ."

\* C10: after a failed load (empty listing set) every turn ends in the greeting path
\* or in the default response: no message is routed to the property branch.
GreetingOrDefaultWithoutListings ==
    property_kb.properties = <<>> =>
        \A r \in Requests : requests[r].branch \in {"", "greeting", "default"}

\* The user message of the conversation of a direct call
CalledMessage == latest_user_message(call.argument)

PropertyBranches == {"detailed", "concise"}

\* C11: each turn takes one of three branches in priority order: the property
\* branch when the message is a follow-up or property-related, the greeting branch
\* only when it is neither and is a greeting, the default branch only when all
\* three tests fail; a message of both vocabularies takes the property branch.
BranchPriority ==
    call.method = "generate_response_with_cached_groq" =>
        LET follow_up == _is_follow_up_about_properties(CalledMessage, call.argument)
            property_related == is_property_related_query(property_kb, CalledMessage)
            greeting == is_greeting_or_general_query(CalledMessage)
        IN  /\ call.result.branch \in PropertyBranches <=> (follow_up \/ property_related)
            /\ call.result.branch = "greeting" <=>
                   (~follow_up /\ ~property_related /\ greeting)
            /\ call.result.branch = "default" <=>
                   (~follow_up /\ ~property_related /\ ~greeting)
            /\ ((\E keyword \in detail_keywords \cap emotional_keywords :
                     Contains(keyword, Lower(CalledMessage)))
                    => call.result.branch \in PropertyBranches)

\* "yes", a detail keyword and a greeting keyword, took the property branch
YesTookPropertyBranch ==
    /\ call.method = "generate_response_with_cached_groq"
    /\ CalledMessage = "yes"
    /\ is_greeting_or_general_query(CalledMessage)
    /\ call.result.branch \in PropertyBranches

\* C12: on the property branch the detailed composer is chosen exactly when the
\* user text has a detail-request keyword, whatever the number of listings matched.
DetailedIffDetailKeyword ==
    (call.method = "generate_response_with_cached_groq"
     /\ call.result.branch \in PropertyBranches)
        => (call.result.branch = "detailed"
                <=> \E keyword \in detail_keywords : Contains(keyword, Lower(CalledMessage)))

\* C13: the language model is called on exactly the concise and the greeting path,
\* once; the detailed path returns the composed string and the default path the
\* default response, both without a call.
GenerationCallOnConciseAndGreeting ==
    \A r \in Requests :
        requests[r].branch # "" =>
            /\ requests[r].groq_calls =
                   (IF requests[r].branch \in {"concise", "greeting"} THEN 1 ELSE 0)
            /\ requests[r].branch = "detailed" =>
                   requests[r].response_text =
                       format_detailed_property_response(property_kb,
                                                         requests[r].matching_properties)
            /\ requests[r].branch = "default" =>
                   requests[r].response_text = get_default_response(property_kb)

\* A detail request with a match was answered with the composed text, without a call
DetailedAnsweredWithoutCall ==
    \E r \in Requests :
        /\ requests[r].pc = "generated"
        /\ requests[r].branch = "detailed"
        /\ requests[r].groq_calls = 0
        /\ requests[r].matching_properties = <<DubaiMarina>>
        /\ requests[r].response_text # ""

\* C14: when the language model call fails, the error reaches the caller: the call
\* is made once, no text is returned in its place and the request is answered with
\* the error.
GenerationErrorPropagates ==
    \A r \in Requests :
        requests[r].e \in GroqErrors =>
            /\ requests[r].pc = "idle"
            /\ requests[r].status = 500
            /\ requests[r].groq_calls = 1
            /\ requests[r].response_text = ""

\* A call on the concise path failed and the request was answered 500
ConciseCallFailed ==
    \E r \in Requests :
        /\ requests[r].e \in GroqErrors
        /\ requests[r].branch = "concise"
        /\ requests[r].status = 500

\* C15: the generator leaves the list passed to it unchanged, the instruction turns
\* go to a copy: the stored sequence holds no instruction turn, and after a turn it
\* ends with the user turn and the assistant turn the handler appended.
StoredSequenceGrowsByTwo ==
    /\ \A i \in 2..Len(StoredTurns) : StoredTurns[i].by # 0
    /\ \A r \in Requests :
           requests[r].pc \in {"replied", "synthesized", "read", "deleted"} =>
               /\ Len(StoredTurns) >= 3
               /\ StoredTurns[Len(StoredTurns) - 1] =
                      Turn("user", requests[r].user_input, requests[r].id, requests[r].epoch)
               /\ StoredTurns[Len(StoredTurns)] =
                      Turn("assistant", requests[r].response_text,
                           requests[r].id, requests[r].epoch)

\* A turn of the concise path, whose prompt carries two instruction turns, ended
\* with the stored sequence [system, user, assistant]
ConciseTurnStored ==
    \E r \in Requests :
        /\ requests[r].pc = "replied"
        /\ requests[r].branch = "concise"
        /\ requests[r].groq_calls = 1
        /\ Len(StoredTurns) = 3

\* C16: is_property_related_query is a superset of the follow-up test: a message
\* that is a follow-up against some history is property-related.
FollowUpIsPropertyRelated ==
    (call.method = "generate_response_with_cached_groq"
     /\ _is_follow_up_about_properties(CalledMessage, call.argument))
        => is_property_related_query(property_kb, CalledMessage)

\* "any others" after an assistant turn naming a listing was a follow-up
AnyOthersWasFollowUp ==
    /\ call.method = "generate_response_with_cached_groq"
    /\ CalledMessage = "any others"
    /\ call.result.is_follow_up_question
    /\ call.result.branch \in PropertyBranches

\* C17: the location set, the feature set, the keys of the location keyword map and
\* the property keywords never hold an empty or whitespace-only string.
IndexHasNoBlankEntry ==
    \A entry \in property_kb.locations \cup property_kb.features
                     \cup DOMAIN property_kb.location_keywords
                     \cup property_kb.property_keywords :
        Strip(entry) # ""

\* C19: between resets the stored sequence is append-only: a step leaves it as it
\* is or appends one turn at its end, and a reset replaces it by one system turn.
AppendOnlyBetweenResets ==
    [][IF chat_history' = chat_history
       THEN \/ histories'[chat_history] = histories[chat_history]
            \/ /\ Len(histories'[chat_history]) = Len(histories[chat_history]) + 1
               /\ SubSeq(histories'[chat_history], 1, Len(histories[chat_history]))
                      = histories[chat_history]
       ELSE /\ Len(histories'[chat_history']) = 1
            /\ histories'[chat_history'][1].role = "system"]_vars

\* Two full turns were appended to the sequence
TwoTurnsStored ==
    /\ Len(StoredTurns) = 5
    /\ StoredTurns[2].role = "user"
    /\ StoredTurns[3].role = "assistant"
    /\ StoredTurns[5].role = "assistant"

\* C20: the all-listings shortcut applies to the trimmed lower-case query: a query
\* equal to one of the five literals after trimming returns the whole listing set.
TrimmedShortcut ==
    (call.method = "search_properties"
     /\ Lower(Strip(call.argument)) \in all_properties_queries)
        => call.result = property_kb.properties

\* A direct call of search_properties that enters the cascade
CascadeSearch ==
    call.method = "search_properties" /\ Lower(call.argument) \notin all_properties_queries

\* C21: for a query that is no all-listings literal the result is the output of
\* exactly one stage, the first of location, feature, price-literal, budget-ceiling
\* that yields a listing, and it is empty only if all four yield nothing.
FirstStageDecides ==
    CascadeSearch =>
        LET query_lower == Lower(call.argument)
            stages == <<LocationStage(property_kb, query_lower),
                        FeatureStage(property_kb, query_lower),
                        PriceLiteralStage(property_kb, query_lower),
                        BudgetCeilingStage(property_kb, query_lower)>>
        IN  \/ call.result = <<>> /\ \A k \in 1..4 : stages[k] = <<>>
            \/ \E k \in 1..4 :
                   /\ stages[k] # <<>>
                   /\ \A j \in 1..(k - 1) : stages[j] = <<>>
                   /\ call.result = stages[k]

\* "pool" returned the location-stage match alone although the feature stage
\* matches another listing
LaterStageNotAdded ==
    /\ call.method = "search_properties"
    /\ call.argument = "pool"
    /\ call.result # <<>>
    /\ call.result = LocationStage(property_kb, "pool")
    /\ \E property_data \in Range(FeatureStage(property_kb, "pool")) :
           property_data \notin Range(call.result)

\* C22: the location stage includes only listings whose lower-case location is a
\* key of the location keyword map, and such a listing exactly when one of its
\* keywords or its location is a substring of the lower-case query.
LocationStageByKeywordMap ==
    (CascadeSearch /\ search_stage(property_kb, call.argument) = "location") =>
        \A i \in 1..Len(property_kb.properties) :
            LET property_data == property_kb.properties[i]
                location == Lower(property_data.location)
            IN  property_data \in Range(call.result) <=>
                    /\ location \in DOMAIN property_kb.location_keywords
                    /\ \/ \E keyword \in property_kb.location_keywords[location] :
                              Contains(keyword, Lower(call.argument))
                       \/ Contains(location, Lower(call.argument))

\* C23: a message is a follow-up exactly when it has a referential phrase and the
\* nearest preceding assistant turn has one of the seven indicators, or it has a
\* pronoun and an assistant turn among the last four entries has one of the five
\* terms; a mention in an older assistant turn does not count.
FollowUpExactly ==
    call.method = "generate_response_with_cached_groq" =>
        LET turns == call.argument
            message == Lower(CalledMessage)
            Mentions(i, terms) ==
                /\ turns[i].role = "assistant"
                /\ \E term \in terms : Contains(term, Lower(turns[i].content))
            by_phrase ==
                /\ \E phrase \in follow_up_phrases : Contains(phrase, message)
                /\ \E i \in 1..Len(turns) :
                       /\ \A j \in (i + 1)..Len(turns) : turns[j].role # "assistant"
                       /\ Mentions(i, {"property", "properties", "dubai", "aed",
                                       "bedroom", "bhk", "location"})
            by_pronoun ==
                /\ \E pronoun \in {"them", "those", "that", "this", "it"} :
                       Contains(pronoun, message)
                /\ \E i \in 1..Len(turns) :
                       /\ i + 4 > Len(turns)
                       /\ Mentions(i, {"property", "properties", "dubai", "aed", "bedroom"})
        IN  call.result.is_follow_up_question <=> (by_phrase \/ by_pronoun)

\* "price of those", with a listing named only in an assistant turn older than the
\* last four entries, was no follow-up
StaleMentionIgnored ==
    /\ call.method = "generate_response_with_cached_groq"
    /\ CalledMessage = "price of those"
    /\ Len(call.argument) = 8
    /\ Contains("aed", Lower(call.argument[3].content))
    /\ ~call.result.is_follow_up_question

\* The numbers of s, each digits with an optional fraction, from position pos on
RECURSIVE NumeralsFrom(_, _)
NumeralsFrom(s, pos) ==
    IF pos > Len(s) THEN <<>>
    ELSE IF IsDigit(CharAt(s, pos))
    THEN <<SubSeq(s, pos, NumberEnd(s, pos, TRUE))>>
             \o NumeralsFrom(s, NumberEnd(s, pos, TRUE) + 1)
    ELSE NumeralsFrom(s, pos + 1)

\* C24: when the location and feature stages yield nothing, the price-literal stage
\* extracts every number of the query, the magnitude word and the currency word
\* both optional, and includes exactly the listings whose price contains one of them.
PriceLiteralWithoutCurrency ==
    (/\ CascadeSearch
     /\ LocationStage(property_kb, Lower(call.argument)) = <<>>
     /\ FeatureStage(property_kb, Lower(call.argument)) = <<>>)
        => LET numerals == Range(NumeralsFrom(Lower(call.argument), 1))
               Priced(property_data) ==
                   \E numeral \in numerals : Contains(numeral, Lower(property_data.price))
               expected == SelectSeq(property_kb.properties, Priced)
           IN  expected # <<>> => call.result = expected

\* number * 100 for number = digits or digits.digits with at most two decimals
Hundredths(number) ==
    LET e == DigitsEnd(number, 1)
        frac == SubSeq(number, e + 2, Len(number)) \o "00"
    IN  100 * ToInt(SubSeq(number, 1, e)) + ToInt(SubSeq(frac, 1, 2))

\* C25: when the first three stages yield nothing and the query has a numeral
\* followed by a budget cue, the first such numeral is the bound and the result is,
\* in listing order, exactly the listings whose "<number>M" price is at most it.
BudgetCeilingByNumeral ==
    (/\ CascadeSearch
     /\ LocationStage(property_kb, Lower(call.argument)) = <<>>
     /\ FeatureStage(property_kb, Lower(call.argument)) = <<>>
     /\ PriceLiteralStage(property_kb, Lower(call.argument)) = <<>>
     /\ NumberUnitFindAll(Lower(call.argument), 1, TRUE, budget_words) # <<>>)
        => LET bound == NumberUnitFindAll(Lower(call.argument), 1, TRUE, budget_words)[1]
               Within(property_data) ==
                   /\ price_match(property_data.price) # <<>>
                   /\ Hundredths(price_match(property_data.price)[1]) <= Hundredths(bound)
           IN  call.result = SelectSeq(property_kb.properties, Within)

\* C26: when the location stage yields nothing, the feature stage returns, in
\* listing order, exactly the listings of which the lower-case features contain a
\* whitespace-split token of the lower-case query; a query without tokens matches
\* no listing in this stage.
FeatureStageByTokens ==
    (CascadeSearch /\ LocationStage(property_kb, Lower(call.argument)) = <<>>) =>
        LET tokens == Split(Lower(call.argument))
            Featured(property_data) ==
                \E k \in 1..Len(tokens) :
                    Contains(tokens[k], Lower(property_data.features))
            expected == SelectSeq(property_kb.properties, Featured)
        IN  /\ expected # <<>> => call.result = expected
            /\ tokens = <<>> => search_stage(property_kb, call.argument) # "feature"
            /\ search_stage(property_kb, call.argument) = "feature" => call.result = expected

\* "budget 2 million" returned the listing whose features hold the token "2"
TokenMatchedFeatures ==
    /\ call.method = "search_properties"
    /\ call.argument = "budget 2 million"
    /\ property_kb.properties = <<DowntownDubai, DubaiMarina>>
    /\ call.result = <<DowntownDubai>>

\* C27: with concurrent requests the latest user message the generator extracts is
\* the user turn the same request appended.
OwnUserMessage ==
    \A r \in Requests :
        requests[r].pc \in {"extracted", "generated", "replied", "synthesized", "read", "deleted"}
            => requests[r].user_message = requests[r].user_input

\* C28: when response generation raises, the request is answered with an error and
\* its user turn stays in the stored history without an assistant turn, so that
\* the history of the next turn holds two consecutive user turns.
FailedTurnKeepsUserTurn ==
    [][\A r \in Requests :
           /\ (requests[r].pc = "extracted" /\ requests'[r].e \in GroqErrors) =>
                  /\ requests'[r].status = 500
                  /\ histories'[chat_history] = histories[chat_history]
                  /\ StoredTurns[Len(StoredTurns)] =
                         Turn("user", requests[r].user_input, requests[r].id,
                              requests[r].epoch)
           /\ (/\ requests[r].pc = "idle"
               /\ requests[r].e \in GroqErrors
               /\ StoredTurns[Len(StoredTurns)].role = "user"
               /\ requests'[r].pc = "appended") =>
                  /\ Len(histories'[chat_history]) = Len(StoredTurns) + 1
                  /\ histories'[chat_history][Len(StoredTurns)].role = "user"
                  /\ histories'[chat_history][Len(StoredTurns) + 1].role = "user"]_vars

\* After a failed generation the next request appended its user turn right after
\* the user turn of the failed one
TwoConsecutiveUserTurns ==
    \E r \in Requests :
        /\ requests[r].pc = "appended"
        /\ Len(StoredTurns) = 3
        /\ StoredTurns[2].role = "user"
        /\ StoredTurns[3].role = "user"
        /\ StoredTurns[2].by # StoredTurns[3].by

\* C29: with concurrent requests the audio returned to a request is the synthesis
\* of its own response text: output.wav is not overwritten or deleted by another
\* request between a request's write and its read.
OwnAudio ==
    \A r \in Requests :
        /\ requests[r].pc = "synthesized" => output_wav = <<requests[r].response_text>>
        /\ requests[r].pc \in {"read", "deleted"} =>
               requests[r].audio_data = requests[r].response_text

=============================================================================
